---- MODULE Spec2Model ----
(***************************************************************************)
(* Order-book and trade-tape reconstruction of torobit-code-examples.      *)
(*                                                                         *)
(* src/history.py and src/live.py are two separate scripts.  The variable  *)
(* prog says which code is running in a behaviour:                         *)
(*   "book"   calls of history.DepthSnapshot.update with any message,      *)
(*   "trades" calls of history.TradeProcessor.update with any message,     *)
(*   "file"   history.process_messages reading one file with FastReader,   *)
(*   "live"   live.on_message called back with any message,                *)
(*   "iter"   a history.FastReader whose __next__ is called repeatedly.     *)
(*                                                                         *)
(* Wire integers are 64 bits wide, wider than the integers of the model    *)
(* checker, so an int64 is kept as the 8 bytes struct.unpack reads it      *)
(* from (little-endian, two's complement) and a Python float as its sign,  *)
(* its 53-bit significand and its binary exponent.                         *)
(***************************************************************************)
EXTENDS Integers, Sequences, FiniteSets, TLC

VARIABLES prog,     \* which code runs in this behaviour
          bids,     \* history.DepthSnapshot.bids : float price -> float volume
          asks,     \* history.DepthSnapshot.asks
          trades,   \* history.TradeProcessor.trades : list of (ts, price, volume)
          file,     \* the file FastReader was opened on
          fpos,     \* FastReader.f: how many chunks of the file have been read
          data,     \* FastReader.data: the decompressed block
          datalen,  \* FastReader.datalen
          offset,   \* FastReader.offset
          pc,       \* where process_messages is: in __next__, in the loop body, ended
          yielded,  \* msg of process_messages: what __next__ returned to the loop body
          count,    \* count of process_messages: the messages handled so far
          depths,   \* live.depths : symbol -> live.DepthSnapshot (bids, asks)
          out,      \* what the last call printed about the state
          calls,    \* every message handed to TradeProcessor.update so far, in order;
                    \* prog = "live": the symbol each on_message call named
          last,     \* the last call: its arguments and the state it was applied to
          sent      \* the levels sent so far, as long as every depth update was a
                    \* non-snapshot update with volume > 0: book -> side -> price -> volume

reader == <<file, fpos, data, datalen, offset, pc, yielded, count>>
vars == <<prog, bids, asks, trades, reader, depths, out, calls, last, sent>>

(***************************************************************************)
(* Bounds of the model.                                                    *)
(***************************************************************************)
MaxTrades == 3      \* TradeProcessor.update calls in one behaviour
MaxLevels == 2      \* price levels in one live MarketDepth payload
MaxCalls == 2       \* live.on_message calls in one behaviour
MaxChunks == 2      \* length-prefixed chunks in one historical file
MaxCount == 6       \* messages process_messages counts in one behaviour

(***************************************************************************)
(* Fixed-width integers as struct packs and unpacks them.                  *)
(***************************************************************************)
RECURSIVE PackLE(_, _)
\* struct.pack of the non-negative n in k little-endian bytes
PackLE(n, k) == IF k = 0 THEN <<>> ELSE <<n % 256>> \o PackLE(n \div 256, k - 1)

\* the int64 whose four 16-bit words are w3 (most significant) .. w0
Q(w3, w2, w1, w0) == PackLE(w0, 2) \o PackLE(w1, 2) \o PackLE(w2, 2) \o PackLE(w3, 2)

\* the int64 of a small integer n, -2^31 < n < 2^31 (two's complement)
I64(n) == Q(IF n < 0 THEN 65535 ELSE 0, IF n < 0 THEN 65535 ELSE 0,
            (n \div 65536) % 65536, n % 65536)

\* 64 bits of an int64, most significant first
BitsOf(q) == [j \in 1..64 |-> (q[8 - ((j - 1) \div 8)] \div 2^(7 - ((j - 1) % 8))) % 2]

IsNeg(q) == q[8] >= 128
IsZero(q) == \A i \in 1..8 : q[i] = 0
\* Python's  x > 0  on an int64
Positive(q) == ~IsNeg(q) /\ ~IsZero(q)

\* bits + 1 on a bit string (most significant first), same width
Inc(b) == [i \in 1..Len(b) |-> IF \A j \in (i + 1)..Len(b) : b[j] = 1
                                 THEN 1 - b[i] ELSE b[i]]

\* |q| as 64 bits: two's complement negation of a negative value
MagBits(q) == IF IsNeg(q) THEN Inc([j \in 1..64 |-> 1 - BitsOf(q)[j]]) ELSE BitsOf(q)

(***************************************************************************)
(* Python's true division  q / 10**8 : the correctly rounded binary64      *)
(* quotient.  A float is [neg, mant, shift], of value                      *)
(* (-1)^neg * mant * 2^(-shift), mant a string of MantBits bits with a     *)
(* leading 1; zero has the empty significand.                              *)
(***************************************************************************)
Scale == 100000000
MantBits == 53

Zero == [neg |-> FALSE, mant |-> <<>>, shift |-> 0]

\* the 16 hexadecimal digits of a 64-bit string, most significant first
Nibbles(B) == [k \in 1..16 |-> 8 * B[4 * k - 3] + 4 * B[4 * k - 2] + 2 * B[4 * k - 1] + B[4 * k]]

\* number of significant bits of a hexadecimal digit d > 0
BitLen(d) == IF d >= 8 THEN 4 ELSE IF d >= 4 THEN 3 ELSE IF d >= 2 THEN 2 ELSE 1

\* significant bits of a digit string that starts with a non-zero digit
SigBits(q) == IF q = <<>> THEN 0 ELSE BitLen(q[1]) + 4 * (Len(q) - 1)

RECURSIVE DivStep(_, _, _, _)
\* long division of the digit string N (then zeros) by Scale, a hexadecimal digit
\* at a time, until the quotient has a guard bit after its MantBits significant bits
DivStep(N, i, rem, q) ==
    IF SigBits(q) > MantBits THEN [q |-> q, rem |-> rem, used |-> i - 1]
    ELSE LET r2 == 16 * rem + (IF i <= Len(N) THEN N[i] ELSE 0)
             qd == r2 \div Scale
         IN  DivStep(N, i + 1, r2 % Scale,
                     IF q = <<>> /\ qd = 0 THEN q ELSE Append(q, qd))

\* the significant bits of a digit string, most significant first
DigitBits(q) ==
    LET lead == 4 - BitLen(q[1])
    IN  [j \in 1..SigBits(q) |->
            (q[((j + lead - 1) \div 4) + 1] \div 2^(3 - ((j + lead - 1) % 4))) % 2]

\* round the quotient bits qb (MantBits + a guard bit + more) to MantBits bits, to
\* nearest and ties to even; frac is the number of qb's bits after the binary point
RoundQuotient(neg, qb, rem, frac) ==
    LET m      == SubSeq(qb, 1, MantBits)
        guard  == qb[MantBits + 1] = 1
        sticky == rem # 0 \/ \E j \in (MantBits + 2)..Len(qb) : qb[j] = 1
        up     == guard /\ (sticky \/ m[MantBits] = 1)
        carry  == up /\ \A j \in 1..MantBits : m[j] = 1
    IN  [neg   |-> neg,
         mant  |-> IF carry THEN [j \in 1..MantBits |-> IF j = 1 THEN 1 ELSE 0]
                   ELSE IF up THEN Inc(m) ELSE m,
         shift |-> (frac - (Len(qb) - MantBits)) - (IF carry THEN 1 ELSE 0)]

RoundDiv(neg, d) == RoundQuotient(neg, DigitBits(d.q), d.rem, 4 * (d.used - 16))

\* q / 10**8
TrueDiv(q) ==
    IF IsZero(q) THEN Zero
    ELSE RoundDiv(IsNeg(q), DivStep(Nibbles(MagBits(q)), 1, 0, <<>>))

\* a < b on two bit strings of the same width
MantLess(a, b) ==
    \E i \in 1..Len(a) : a[i] < b[i] /\ \A j \in 1..(i - 1) : a[j] = b[j]

\* magnitude order of two non-zero floats
MagLess(x, y) == x.shift > y.shift \/ (x.shift = y.shift /\ MantLess(x.mant, y.mant))

\* Python's  x < y  on floats
FloatLess(x, y) ==
    CASE x = y -> FALSE
      [] x = Zero -> ~y.neg
      [] y = Zero -> x.neg
      [] x.neg /\ ~y.neg -> TRUE
      [] ~x.neg /\ y.neg -> FALSE
      [] x.neg /\ y.neg -> MagLess(y, x)
      [] OTHER -> MagLess(x, y)

(***************************************************************************)
(* Python dicts as functions from keys to values.                          *)
(***************************************************************************)
EmptyDict == <<>>
\* items[k] = v
SetItem(items, k, v) == [x \in (DOMAIN items) \cup {k} |-> IF x = k THEN v ELSE items[x]]
\* pop that removes nothing
PopNothing(items, k) == items

\* items.pop(k, None)
Pop(items, k) == [x \in (DOMAIN items) \ {k} |-> items[x]]

\* flags & 2^k
Bit(flags, k) == (flags \div 2^k) % 2 = 1

(***************************************************************************)
(* The messages the calls are made with.                                   *)
(***************************************************************************)
P100   == Q(0, 2, 21515, 58368)     \* 10000000000 = 100.00000000
PBigA  == Q(32, 0, 0, 1)            \* 9007199254740993 = 90071992.54740993
PBigB  == Q(32, 0, 0, 2)            \* 9007199254740994 = 90071992.54740994
RawPrices == {P100, PBigA, PBigB}

V25    == I64(250000000)            \* 2.5
VTick  == I64(1)                    \* 0.00000001
RawVolumes == {V25, VTick, I64(0), I64(-1)}

\* flags: side bit 0, snapshot bit 2, and one with another bit set
FlagSet == {0, 1, 2, 4, 5, 250}

DepthMsgs == {<<0, 29, I64(1), p, v, f>> : p \in RawPrices, v \in RawVolumes, f \in FlagSet}

TradeMsgs == {<<1, 37, I64(ts), p, v, I64(0), 0>> :
                ts \in {1, 2}, p \in {P100, PBigA}, v \in {V25, VTick}}

\* every int64 the calls below are made with, and its quotient by 10**8
\* item['Price'] and item['Volume'] of the live feed, and the int64 the historical
\* stream carries for such a value
LivePrices == {10, 11}
LiveVolumes == {-1, 0, 1, 2}
Wire(v) == I64(v * Scale)

Int64s == RawPrices \cup RawVolumes \cup {Wire(v) : v \in LivePrices \cup LiveVolumes}
Quotients == [q \in Int64s |-> TrueDiv(q)]

\* msg[i] / 10**8
Div8(q) == IF q \in Int64s THEN Quotients[q] ELSE TrueDiv(q)

(***************************************************************************)
(* history.DepthSnapshot.  A message is the tuple struct.unpack_from       *)
(* returns, fields numbered from 1: type, length, timestamp, price,        *)
(* volume, flags for '=hhqqqB'.                                            *)
(***************************************************************************)
\* update that clears only the side the snapshot message selects
HistUpdateClearsOneSide(b, a, msg) ==
    LET snap   == Bit(msg[6], 2)
        isBid  == Bit(msg[6], 0)
        b0     == IF snap /\ isBid THEN EmptyDict ELSE b
        a0     == IF snap /\ ~isBid THEN EmptyDict ELSE a
        items  == IF isBid THEN b0 ELSE a0
        items2 == IF Positive(msg[5]) THEN SetItem(items, Div8(msg[4]), Div8(msg[5]))
                  ELSE Pop(items, Div8(msg[4]))
    IN  [bids |-> IF isBid THEN items2 ELSE b0,
         asks |-> IF isBid THEN a0 ELSE items2]

\* update that takes any of the two lowest flag bits for the side
HistUpdateSideFromTwoBits(b, a, msg) ==
    LET snap   == Bit(msg[6], 2)
        b0     == IF snap THEN EmptyDict ELSE b
        a0     == IF snap THEN EmptyDict ELSE a
        isBid  == Bit(msg[6], 0) \/ Bit(msg[6], 1)
        items  == IF isBid THEN b0 ELSE a0
        items2 == IF Positive(msg[5]) THEN SetItem(items, Div8(msg[4]), Div8(msg[5]))
                  ELSE Pop(items, Div8(msg[4]))
    IN  [bids |-> IF isBid THEN items2 ELSE b0,
         asks |-> IF isBid THEN a0 ELSE items2]

\* update with  msg[4] >= 0  for  msg[4] > 0
HistUpdateStoresZero(b, a, msg) ==
    LET snap   == Bit(msg[6], 2)
        b0     == IF snap THEN EmptyDict ELSE b
        a0     == IF snap THEN EmptyDict ELSE a
        isBid  == Bit(msg[6], 0)
        items  == IF isBid THEN b0 ELSE a0
        items2 == IF ~IsNeg(msg[5]) THEN SetItem(items, Div8(msg[4]), Div8(msg[5]))
                  ELSE Pop(items, Div8(msg[4]))
    IN  [bids |-> IF isBid THEN items2 ELSE b0,
         asks |-> IF isBid THEN a0 ELSE items2]

HistUpdate(b, a, msg) ==
    LET snap   == Bit(msg[6], 2)
        b0     == IF snap THEN EmptyDict ELSE b
        a0     == IF snap THEN EmptyDict ELSE a
        isBid  == Bit(msg[6], 0)
        items  == IF isBid THEN b0 ELSE a0
        price  == Div8(msg[4])
        volume == Div8(msg[5])
        items2 == IF Positive(msg[5]) THEN SetItem(items, price, volume)
                  ELSE Pop(items, price)
    IN  [bids |-> IF isBid THEN items2 ELSE b0,
         asks |-> IF isBid THEN a0 ELSE items2]

\* Python's  x < y  on two numbers of the same type, "float" or "int"
PyLess(type, x, y) == IF type = "float" THEN FloatLess(x, y) ELSE x < y

RECURSIVE PyMax(_, _)
\* max(keys): keep the item that compares greater than the one kept so far
PyMax(S, type) ==
    LET x == CHOOSE x \in S : TRUE
    IN  IF S = {x} THEN x
        ELSE LET m == PyMax(S \ {x}, type) IN IF PyLess(type, m, x) THEN x ELSE m

RECURSIVE PyMin(_, _)
\* min(keys): keep the item that compares less than the one kept so far
PyMin(S, type) ==
    LET x == CHOOSE x \in S : TRUE
    IN  IF S = {x} THEN x
        ELSE LET m == PyMin(S \ {x}, type) IN IF PyLess(type, x, m) THEN x ELSE m

\* Python's None is the empty tuple here, and a printed key k the tuple <<k>>, so
\* that the two can be compared
None == <<>>
Some(x) == <<x>>
NoOutput == [printed |-> "nothing"]

\* what history.DepthSnapshot.printstate prints
HistPrintstate(b, a) ==
    [bids_count |-> Cardinality(DOMAIN b),
     asks_count |-> Cardinality(DOMAIN a),
     best_bid   |-> IF DOMAIN b # {} THEN Some(PyMax(DOMAIN b, "float")) ELSE None,
     best_ask   |-> IF DOMAIN a # {} THEN Some(PyMin(DOMAIN a, "float")) ELSE None]

(***************************************************************************)
(* history.TradeProcessor                                                  *)
(***************************************************************************)
\* update that puts the new trade first
TradeUpdateInFront(t, msg) == <<<<msg[3], Div8(msg[4]), Div8(msg[5])>>>> \o t

TradeUpdate(t, msg) == Append(t, <<msg[3], Div8(msg[4]), Div8(msg[5])>>)

\* what history.TradeProcessor.printstate prints
TradePrintstate(t) ==
    [trades_count |-> Len(t),
     last_trade   |-> IF Len(t) > 0 THEN Some(t[Len(t)]) ELSE None]

NoCall == [op |-> "none"]

(***************************************************************************)
(* live.DepthSnapshot and live.on_message.  A message is the value         *)
(* json.loads returns: a record; prices and volumes are its numbers.       *)
(***************************************************************************)
RECURSIVE UpdateItemsKeepsZero(_, _)
\* update_items with  volume >= 0  for  volume > 0
UpdateItemsKeepsZero(items, msg_side) ==
    IF msg_side = <<>> THEN [items |-> items, raised |-> FALSE]
    ELSE LET item == Head(msg_side)
         IN  IF "Price" \notin DOMAIN item \/ "Volume" \notin DOMAIN item
             THEN [items |-> items, raised |-> TRUE]
             ELSE UpdateItemsKeepsZero(IF item.Volume >= 0
                                       THEN SetItem(items, item.Price, item.Volume)
                                       ELSE Pop(items, item.Price),
                                       Tail(msg_side))

RECURSIVE UpdateItemsFirstWins(_, _)
\* update_items that leaves a price it already holds at its old volume
UpdateItemsFirstWins(items, msg_side) ==
    IF msg_side = <<>> THEN [items |-> items, raised |-> FALSE]
    ELSE LET item == Head(msg_side)
         IN  IF "Price" \notin DOMAIN item \/ "Volume" \notin DOMAIN item
             THEN [items |-> items, raised |-> TRUE]
             ELSE UpdateItemsFirstWins(
                      IF item.Volume > 0
                      THEN (IF item.Price \in DOMAIN items THEN items
                            ELSE SetItem(items, item.Price, item.Volume))
                      ELSE Pop(items, item.Price),
                      Tail(msg_side))

RECURSIVE UpdateItems(_, _)
\* live.DepthSnapshot.update_items; raised: a KeyError left the loop
UpdateItems(items, msg_side) ==
    IF msg_side = <<>> THEN [items |-> items, raised |-> FALSE]
    ELSE LET item == Head(msg_side)
         IN  IF "Price" \notin DOMAIN item \/ "Volume" \notin DOMAIN item
             THEN [items |-> items, raised |-> TRUE]
             ELSE UpdateItems(IF item.Volume > 0
                              THEN SetItem(items, item.Price, item.Volume)
                              ELSE Pop(items, item.Price),
                              Tail(msg_side))

NewSnapshot == [bids |-> EmptyDict, asks |-> EmptyDict]

\* the line live.DepthSnapshot.update prints
LiveUpdatePrint(d) ==
    [best_bid |-> IF DOMAIN d.bids # {} THEN Some(PyMax(DOMAIN d.bids, "int")) ELSE None,
     best_ask |-> IF DOMAIN d.asks # {} THEN Some(PyMin(DOMAIN d.asks, "int")) ELSE None]

\* what live.DepthSnapshot.print_state prints: the two maps, then the line
\* 'Best Bid/Ask: ...' (valid) or the line 'No valid bids or asks.'
LivePrintState(d) ==
    LET valid == DOMAIN d.bids # {} /\ DOMAIN d.asks # {}
    IN  [bids     |-> d.bids,
         asks     |-> d.asks,
         valid    |-> valid,
         best_bid |-> IF valid THEN Some(PyMax(DOMAIN d.bids, "int")) ELSE None,
         best_ask |-> IF valid THEN Some(PyMin(DOMAIN d.asks, "int")) ELSE None]

\* update that clears before each side's levels are applied
LiveUpdateClearsPerSide(d, msg) ==
    LET md == msg.MarketDepth
    IN  IF "IsUpdate" \notin DOMAIN md THEN [d |-> d, raised |-> TRUE]
        ELSE LET d0 == IF ~md.IsUpdate THEN NewSnapshot ELSE d
             IN  IF "Bids" \notin DOMAIN md THEN [d |-> d0, raised |-> TRUE]
                 ELSE LET rb == UpdateItems(d0.bids, md.Bids)
                          d1 == IF ~md.IsUpdate THEN NewSnapshot
                                ELSE [bids |-> rb.items, asks |-> d0.asks]
                      IN  IF rb.raised \/ "Asks" \notin DOMAIN md
                          THEN [d |-> d1, raised |-> TRUE]
                          ELSE LET ra == UpdateItems(d1.asks, md.Asks)
                               IN  [d |-> [bids |-> d1.bids, asks |-> ra.items],
                                    raised |-> ra.raised]

\* live.DepthSnapshot.update on the snapshot d; raised: a KeyError left it
LiveUpdate(d, msg) ==
    LET md == msg.MarketDepth
    IN  IF "IsUpdate" \notin DOMAIN md THEN [d |-> d, raised |-> TRUE]
        ELSE LET d0 == IF ~md.IsUpdate THEN NewSnapshot ELSE d
             IN  IF "Bids" \notin DOMAIN md THEN [d |-> d0, raised |-> TRUE]
                 ELSE LET rb == UpdateItems(d0.bids, md.Bids)
                          d1 == [bids |-> rb.items, asks |-> d0.asks]
                      IN  IF rb.raised \/ "Asks" \notin DOMAIN md
                          THEN [d |-> d1, raised |-> TRUE]
                          ELSE LET ra == UpdateItems(d1.asks, md.Asks)
                               IN  [d |-> [bids |-> d1.bids, asks |-> ra.items],
                                    raised |-> ra.raised]

\* text that is not JSON
NotJson == [NotJson |-> TRUE]

\* json.loads(data) raises json.JSONDecodeError
JsonLoadsFails(text) == "NotJson" \in DOMAIN text

\* on_message that starts every MarketDepth message from a new DepthSnapshot
OnMessageFreshBook(reg, msg) ==
    IF JsonLoadsFails(msg) THEN [depths |-> reg, out |-> NoOutput, raised |-> TRUE]
    ELSE IF "MarketDepth" \in DOMAIN msg
    THEN IF "Symbol" \notin DOMAIN msg.MarketDepth
         THEN [depths |-> reg, out |-> NoOutput, raised |-> TRUE]
         ELSE LET r == LiveUpdate(NewSnapshot, msg)
              IN  [depths |-> SetItem(reg, msg.MarketDepth.Symbol, r.d),
                   out    |-> IF r.raised THEN NoOutput
                              ELSE [printed     |-> "live",
                                    update      |-> LiveUpdatePrint(r.d),
                                    print_state |-> LivePrintState(r.d)],
                   raised |-> r.raised]
    ELSE [depths |-> reg, out |-> NoOutput, raised |-> FALSE]

\* on_message that also opens a book for the symbol of a PublicTrade message
OnMessageTradeOpensBook(reg, msg) ==
    IF JsonLoadsFails(msg) THEN [depths |-> reg, out |-> NoOutput, raised |-> TRUE]
    ELSE IF "MarketDepth" \in DOMAIN msg
    THEN IF "Symbol" \notin DOMAIN msg.MarketDepth
         THEN [depths |-> reg, out |-> NoOutput, raised |-> TRUE]
         ELSE LET symbol == msg.MarketDepth.Symbol
                  depth  == IF symbol \in DOMAIN reg THEN reg[symbol] ELSE NewSnapshot
                  r      == LiveUpdate(depth, msg)
              IN  [depths |-> SetItem(reg, symbol, r.d),
                   out    |-> IF r.raised THEN NoOutput
                              ELSE [printed     |-> "live",
                                    update      |-> LiveUpdatePrint(r.d),
                                    print_state |-> LivePrintState(r.d)],
                   raised |-> r.raised]
    ELSE IF "PublicTrade" \in DOMAIN msg
    THEN [depths |-> SetItem(reg, msg.PublicTrade.Symbol, NewSnapshot),
          out |-> NoOutput, raised |-> FALSE]
    ELSE [depths |-> reg, out |-> NoOutput, raised |-> FALSE]

\* live.on_message(ws, data) on the registry reg, msg being what data holds: the new
\* registry, what was printed about the book, and whether an exception left the handler
OnMessage(reg, msg) ==
    IF JsonLoadsFails(msg) THEN [depths |-> reg, out |-> NoOutput, raised |-> TRUE]
    ELSE IF "MarketDepth" \in DOMAIN msg
    THEN IF "Symbol" \notin DOMAIN msg.MarketDepth
         THEN [depths |-> reg, out |-> NoOutput, raised |-> TRUE]
         ELSE LET symbol == msg.MarketDepth.Symbol
                  depth  == IF symbol \in DOMAIN reg THEN reg[symbol] ELSE NewSnapshot
                  r      == LiveUpdate(depth, msg)
              IN  [depths |-> SetItem(reg, symbol, r.d),
                   out    |-> IF r.raised THEN NoOutput
                              ELSE [printed     |-> "live",
                                    update      |-> LiveUpdatePrint(r.d),
                                    print_state |-> LivePrintState(r.d)],
                   raised |-> r.raised]
    ELSE [depths |-> reg, out |-> NoOutput, raised |-> FALSE]

Symbols == {"BTC-PERPETUAL@DERIBIT", "BTC-USD@DYDX_V4"}
Levels == {[Price |-> p, Volume |-> v] : p \in LivePrices, v \in LiveVolumes}

\* the lists of at most n price levels
RECURSIVE LevelLists(_)
LevelLists(n) ==
    IF n = 0 THEN {<<>>}
    ELSE LevelLists(n - 1) \cup
         {Append(l, e) : l \in {x \in LevelLists(n - 1) : Len(x) = n - 1}, e \in Levels}

\* MarketDepth payloads with at most MaxLevels price levels in all
DepthPayloads ==
    UNION {{[MarketDepth |-> [Symbol |-> s, IsUpdate |-> u, Bids |-> b, Asks |-> a]] :
               s \in Symbols, u \in BOOLEAN, a \in LevelLists(MaxLevels - Len(b))} :
           b \in LevelLists(MaxLevels)}

\* MarketDepth payloads with a key missing
MalformedPayloads ==
    {[MarketDepth |-> [IsUpdate |-> FALSE, Bids |-> <<>>, Asks |-> <<>>]],
     [MarketDepth |-> [Symbol |-> "BTC-USD@DYDX_V4"]],
     [MarketDepth |-> [Symbol |-> "BTC-USD@DYDX_V4", IsUpdate |-> FALSE,
                       Asks |-> <<[Price |-> 11, Volume |-> 1]>>]],
     [MarketDepth |-> [Symbol |-> "BTC-USD@DYDX_V4", IsUpdate |-> TRUE,
                       Bids |-> <<[Price |-> 10, Volume |-> 1]>>]],
     [MarketDepth |-> [Symbol |-> "BTC-USD@DYDX_V4", IsUpdate |-> TRUE,
                       Bids |-> <<[Price |-> 10, Volume |-> 2], [Price |-> 11]>>,
                       Asks |-> <<>>]],
     [MarketDepth |-> [Symbol |-> "BTC-USD@DYDX_V4", IsUpdate |-> TRUE,
                       Bids |-> <<>>,
                       Asks |-> <<[Volume |-> 1]>>]]}

\* objects without the MarketDepth key
OtherPayloads ==
    {[Symbols |-> <<"BTC-USD@DYDX_V4">>],
     [PublicTrade |-> [Symbol |-> "BTC-USD@DYDX_V4", Price |-> 10, Volume |-> 1]],
     [PublicTrades |-> [Symbol |-> "BTC-USD@DYDX_V4"]],
     [Heartbeat |-> 1]}

LiveMsgs == DepthPayloads \cup MalformedPayloads \cup OtherPayloads \cup {NotJson}

\* the symbol a message's MarketDepth names, "-" when it names none
Named(msg) ==
    IF /\ ~JsonLoadsFails(msg)
       /\ "MarketDepth" \in DOMAIN msg
       /\ "Symbol" \in DOMAIN msg.MarketDepth
    THEN msg.MarketDepth.Symbol ELSE "-"

(***************************************************************************)
(* prog = "book": the body of the loop of process_messages for a depth     *)
(* message, DepthSnapshot.update then printstate, with any depth message.  *)
(***************************************************************************)
(***************************************************************************)
(* The record of what was sent, kept beside the program: for each book     *)
(* and side the exact price of every level sent and the volume last sent   *)
(* for it.  It is kept only while every depth update so far was a          *)
(* non-snapshot update with volume > 0.                                    *)
(***************************************************************************)
NoneSent == [ok |-> TRUE, book |-> EmptyDict]
NotTracked == [ok |-> FALSE, book |-> EmptyDict]

SentSide(s, id, side) ==
    IF id \in DOMAIN s.book THEN s.book[id][side] ELSE EmptyDict

\* price -> volume sent to one side of book id
SendLevel(s, id, side, price, volume) ==
    LET old == IF id \in DOMAIN s.book THEN s.book[id]
               ELSE [bids |-> EmptyDict, asks |-> EmptyDict]
    IN  [ok |-> TRUE,
         book |-> SetItem(s.book, id, [old EXCEPT ![side] = SetItem(old[side], price, volume)])]

\* after a depth message of the historical stream
SentAfterDepth(s, m) ==
    IF ~s.ok \/ Bit(m[6], 2) \/ ~Positive(m[5]) THEN NotTracked
    ELSE SendLevel(s, "history", IF Bit(m[6], 0) THEN "bids" ELSE "asks", m[4], m[5])

RECURSIVE SendLevels(_, _, _, _)
SendLevels(s, id, side, levels) ==
    IF levels = <<>> THEN s
    ELSE SendLevels(SendLevel(s, id, side, Head(levels).Price, Head(levels).Volume),
                    id, side, Tail(levels))

WellFormed(m) ==
    /\ "MarketDepth" \in DOMAIN m
    /\ {"Symbol", "IsUpdate", "Bids", "Asks"} \subseteq DOMAIN m.MarketDepth
    /\ \A l \in {m.MarketDepth.Bids, m.MarketDepth.Asks} :
         \A i \in 1..Len(l) : {"Price", "Volume"} \subseteq DOMAIN l[i]

\* after a message of the live feed
SentAfterMessage(s, m) ==
    IF "MarketDepth" \notin DOMAIN m THEN s
    ELSE IF ~s.ok \/ ~WellFormed(m) THEN NotTracked
    ELSE LET md == m.MarketDepth
         IN  IF ~md.IsUpdate
                \/ \E l \in {md.Bids, md.Asks} : \E i \in 1..Len(l) : ~(l[i].Volume > 0)
             THEN NotTracked
             ELSE SendLevels(SendLevels(s, md.Symbol, "bids", md.Bids),
                             md.Symbol, "asks", md.Asks)

NoFile == [ulen |-> 0, chunks |-> <<>>]

Untouched ==
    /\ bids = EmptyDict /\ asks = EmptyDict /\ trades = <<>> /\ calls = <<>>
    /\ fpos = 0 /\ data = <<>> /\ datalen = 0 /\ offset = 0 /\ pc = "none" /\ yielded = None
    /\ count = 0
    /\ depths = EmptyDict /\ out = NoOutput /\ last = NoCall /\ sent = NoneSent

BookInit == prog = "book" /\ file = NoFile /\ Untouched

BookUpdate ==
    /\ prog = "book"
    /\ \E msg \in DepthMsgs :
         LET r == HistUpdate(bids, asks, msg)
         IN  /\ bids' = r.bids
             /\ asks' = r.asks
             /\ out' = [printed |-> "depth", depth |-> HistPrintstate(r.bids, r.asks)]
             /\ last' = [op |-> "depth", msg |-> msg, bids |-> bids, asks |-> asks]
             /\ sent' = SentAfterDepth(sent, msg)
    /\ UNCHANGED <<prog, trades, calls, depths, reader>>

(***************************************************************************)
(* prog = "trades": TradeProcessor.update then printstate, with any trade  *)
(* message.                                                                *)
(***************************************************************************)
TradesInit == prog = "trades" /\ file = NoFile /\ Untouched

TradesUpdate ==
    /\ prog = "trades"
    /\ Len(calls) < MaxTrades
    /\ \E msg \in TradeMsgs :
         /\ trades' = TradeUpdate(trades, msg)
         /\ out' = [printed |-> "trades", trades |-> TradePrintstate(trades')]
         /\ calls' = Append(calls, msg)
         /\ last' = [op |-> "trade", msg |-> msg, trades |-> trades]
    /\ UNCHANGED <<prog, bids, asks, depths, reader, sent>>

(***************************************************************************)
(* prog = "live": the socket calls on_message with any message.            *)
(***************************************************************************)
LiveInit == prog = "live" /\ file = NoFile /\ Untouched

LiveOnMessage ==
    /\ prog = "live"
    /\ Len(calls) < MaxCalls
    /\ \E msg \in LiveMsgs :
         LET r == OnMessage(depths, msg)
         IN  /\ depths' = r.depths
             /\ out' = r.out
             /\ calls' = Append(calls, Named(msg))
             /\ last' = [op |-> "message", msg |-> msg, depths |-> depths,
                         raised |-> r.raised]
             /\ sent' = SentAfterMessage(sent, msg)
    /\ UNCHANGED <<prog, bids, asks, trades, reader>>

(***************************************************************************)
(* history.FastReader.  A file is its uncompressed block length ulen and   *)
(* its chunks in order.  A chunk is what the two reads of __next__ meet:   *)
(* lenbytes, how many bytes of the length prefix the file still holds,     *)
(* clen, the prefix, and block, what lz4.block.decompress makes of the     *)
(* clen bytes read (corrupt: it raises instead).                           *)
(***************************************************************************)
\* struct.pack('=h', n)
PackH(n) == PackLE(n % 65536, 2)

\* struct.calcsize of '=hhq', '=hhqqqB' and '=hhqqqqB'
HeaderSize == 12
DepthSize == 29
TradeSize == 37

Frame0(length, ts, price, volume, flags) ==
    PackH(0) \o PackH(length) \o ts \o price \o volume \o <<flags>>

Frame1(length, ts, price, volume, extra, flags) ==
    PackH(1) \o PackH(length) \o ts \o price \o volume \o extra \o <<flags>>

\* a frame of another type: its header and length - 12 further bytes
FrameX(type, length, ts) ==
    PackH(type) \o PackH(length) \o ts \o [i \in 1..(length - HeaderSize) |-> 170]

Zeros(n) == [i \in 1..n |-> 0]

\* struct.unpack_from(fmt, buffer, offset) raises struct.error
UnpackFails(buffer, off, size) ==
    LET eff == IF off < 0 THEN off + Len(buffer) ELSE off
    IN  eff < 0 \/ Len(buffer) - eff < size

\* the index in buffer of the first byte unpack_from reads
At(buffer, off) == (IF off < 0 THEN off + Len(buffer) ELSE off) + 1

UnpackH(buffer, i) ==
    LET u == buffer[i] + 256 * buffer[i + 1]
    IN  IF u >= 32768 THEN u - 65536 ELSE u

UnpackQ(buffer, i) == SubSeq(buffer, i, i + 7)

\* struct.unpack_from('=hhq', ...), ('=hhqqqB', ...) and ('=hhqqqqB', ...)
UnpackHeader(buffer, i) == <<UnpackH(buffer, i), UnpackH(buffer, i + 2), UnpackQ(buffer, i + 4)>>

\* unpack_from('=hhqqqB', ...) that takes the flags one byte early
UnpackDepthFlagsEarly(buffer, i) ==
    <<UnpackH(buffer, i), UnpackH(buffer, i + 2), UnpackQ(buffer, i + 4),
      UnpackQ(buffer, i + 12), UnpackQ(buffer, i + 20), buffer[i + 27]>>

UnpackDepth(buffer, i) ==
    <<UnpackH(buffer, i), UnpackH(buffer, i + 2), UnpackQ(buffer, i + 4),
      UnpackQ(buffer, i + 12), UnpackQ(buffer, i + 20), buffer[i + 28]>>

UnpackTrade(buffer, i) ==
    <<UnpackH(buffer, i), UnpackH(buffer, i + 2), UnpackQ(buffer, i + 4),
      UnpackQ(buffer, i + 12), UnpackQ(buffer, i + 20), UnpackQ(buffer, i + 28),
      buffer[i + 36]>>

\* lines 34-50 of __next__ on the window d at offset off: the frame is decoded, the
\* offset advanced, and the message returned ("got") or the loop continued ("next")
Decode(d, off) ==
    IF UnpackFails(d, off, HeaderSize) THEN [pc |-> "error", offset |-> off, msg |-> None]
    ELSE LET header == UnpackHeader(d, At(d, off))
             size   == IF header[1] = 0 THEN DepthSize
                       ELSE IF header[1] = 1 THEN TradeSize ELSE 0
         IN  IF UnpackFails(d, off, size)
             THEN [pc |-> "error", offset |-> off, msg |-> None]
             ELSE LET m == IF header[1] = 0 THEN UnpackDepth(d, At(d, off))
                           ELSE IF header[1] = 1 THEN UnpackTrade(d, At(d, off))
                           ELSE None
                  IN  [pc     |-> IF m # None THEN "got" ELSE "next",
                       offset |-> off + header[2],
                       msg    |-> m]

\* lz4.block.decompress(self.f.read(clen), self.ulen) raises
DecompressFails(chunk, ulen) == chunk.corrupt \/ Len(chunk.block) > ulen

\* the end test without  clen == 0
AtEndOnShortPrefix(f, pos) ==
    \/ pos >= Len(f.chunks)
    \/ f.chunks[pos + 1].lenbytes < 4

\* lines 23-28 of __next__ with pos chunks of file f read: f.read(4) gives fewer
\* than 4 bytes, or the length it gives is 0
AtEnd(f, pos) ==
    \/ pos >= Len(f.chunks)
    \/ f.chunks[pos + 1].lenbytes < 4
    \/ f.chunks[pos + 1].clen = 0

\* one pass through the body of  while True  in FastReader.__next__
FastReaderNext ==
    /\ prog \in {"file", "iter"}
    /\ pc = "next"
    /\ LET refill == offset >= datalen
           eof    == fpos >= Len(file.chunks)
           chunk  == file.chunks[fpos + 1]
           before == [fpos |-> fpos, offset |-> offset, datalen |-> datalen]
       IN  IF refill /\ AtEnd(file, fpos)
           THEN /\ pc' = "stop"
                /\ fpos' = IF eof THEN fpos ELSE fpos + 1
                /\ last' = [op |-> "next", refill |-> TRUE, header |-> None,
                            offset |-> offset, before |-> before]
                /\ UNCHANGED <<data, datalen, offset, yielded>>
           ELSE IF refill /\ DecompressFails(chunk, file.ulen)
           THEN /\ pc' = "error"
                /\ fpos' = fpos + 1
                /\ last' = [op |-> "next", refill |-> TRUE, header |-> None,
                            offset |-> offset, before |-> before]
                /\ UNCHANGED <<data, datalen, offset, yielded>>
           ELSE LET d   == IF refill THEN chunk.block ELSE data
                    off == IF refill THEN 0 ELSE offset
                    r   == Decode(d, off)
                IN  /\ fpos' = IF refill THEN fpos + 1 ELSE fpos
                    /\ data' = d
                    /\ datalen' = Len(d)
                    /\ offset' = r.offset
                    /\ pc' = r.pc
                    /\ yielded' = IF r.pc = "got" THEN r.msg ELSE yielded
                    /\ last' = [op |-> "next", refill |-> refill, offset |-> off,
                                before |-> before,
                                header |-> IF UnpackFails(d, off, HeaderSize) THEN None
                                           ELSE UnpackHeader(d, At(d, off))]
    /\ UNCHANGED <<prog, file, count, bids, asks, trades, depths, out, calls, sent>>

\* the body of the loop of process_messages on the message __next__ returned
ProcessMessage ==
    /\ prog = "file"
    /\ pc = "got"
    /\ yielded[1] = 1 => Len(trades) < MaxTrades
    /\ LET r == IF yielded[1] = 0 THEN HistUpdate(bids, asks, yielded)
                ELSE [bids |-> bids, asks |-> asks]
           t == IF yielded[1] = 1 THEN TradeUpdate(trades, yielded) ELSE trades
       IN  /\ bids' = r.bids
           /\ asks' = r.asks
           /\ trades' = t
           /\ calls' = IF yielded[1] = 1 THEN Append(calls, yielded) ELSE calls
           /\ out' = [printed |-> "both", depth |-> HistPrintstate(r.bids, r.asks),
                       trades |-> TradePrintstate(t)]
           /\ last' = [op |-> "process", msg |-> yielded, bids |-> bids, asks |-> asks,
                       trades |-> trades]
           /\ sent' = IF yielded[1] = 0 THEN SentAfterDepth(sent, yielded) ELSE sent
    /\ count' = IF count < MaxCount THEN count + 1 ELSE count  \* counted up to MaxCount
    /\ pc' = "next"
    /\ UNCHANGED <<prog, file, fpos, data, datalen, offset, yielded, depths>>

(***************************************************************************)
(* The files process_messages is run on.                                   *)
(***************************************************************************)
BidInsert  == Frame0(DepthSize, I64(1), P100, V25, 1)
AskInsert  == Frame0(DepthSize, I64(2), PBigA, VTick, 0)
BidRemove  == Frame0(DepthSize, I64(3), P100, I64(0), 1)
BidSnap    == Frame0(DepthSize, I64(4), PBigB, V25, 5)
Trade1     == Frame1(TradeSize, I64(2), P100, V25, I64(7), 0)
Trade2     == Frame1(TradeSize, I64(1), PBigA, VTick, I64(8), 0)
Unknown2   == FrameX(2, 12, I64(5))
Unknown7   == FrameX(7, 20, I64(6))
\* an unknown frame that declares length 0, a depth frame that declares -29
UnknownLen0 == FrameX(2, 0, I64(5))
DepthBack   == Frame0(0 - DepthSize, I64(2), PBigA, VTick, 0)

Blocks ==
    { BidInsert \o Trade1,
      AskInsert \o Unknown2 \o BidRemove,
      Unknown7 \o Trade2,
      Unknown2,
      BidSnap \o Zeros(DepthSize),          \* zero padding after the last frame
      BidInsert \o UnknownLen0,
      BidInsert \o DepthBack,
      BidInsert \o SubSeq(AskInsert, 1, 20), \* the block ends inside a frame
      BidInsert \o Zeros(4) }                \* the block ends inside a header

\* short: the file ends before clen bytes follow the prefix, and f.read(clen) gives
\* what is left.  lz4.block.decompress then raises, or, when the bytes that are left
\* end where a run of literals ends, returns the part of the block they encode.
Chunks ==
    {[lenbytes |-> 4, clen |-> 40, short |-> FALSE, corrupt |-> FALSE, block |-> b] :
        b \in Blocks}
    \cup {[lenbytes |-> 4, clen |-> 40, short |-> FALSE, corrupt |-> TRUE, block |-> <<>>],
          [lenbytes |-> 4, clen |-> 0, short |-> FALSE, corrupt |-> FALSE, block |-> <<>>],
          [lenbytes |-> 2, clen |-> 0, short |-> FALSE, corrupt |-> FALSE, block |-> <<>>],
          [lenbytes |-> 4, clen |-> 40, short |-> TRUE, corrupt |-> TRUE, block |-> <<>>],
          [lenbytes |-> 4, clen |-> 40, short |-> TRUE, corrupt |-> FALSE,
           block |-> AskInsert \o SubSeq(Unknown2, 1, 6)]}

RECURSIVE ChunkLists(_)
ChunkLists(n) ==
    IF n = 0 THEN {<<>>}
    ELSE ChunkLists(n - 1) \cup
         {Append(l, c) : l \in {x \in ChunkLists(n - 1) : Len(x) = n - 1}, c \in Chunks}

\* a prefix shorter than 4 bytes, or a chunk cut short, can only be the end of the file
Files ==
    {[ulen |-> u, chunks |-> l] : u \in {64, 128},
        l \in {x \in ChunkLists(MaxChunks) :
                 \A i \in 1..(Len(x) - 1) : x[i].lenbytes = 4 /\ ~x[i].short}}

(***************************************************************************)
(* prog = "file": process_messages(file_path), from FastReader.__init__.   *)
(***************************************************************************)
FileInit ==
    /\ prog = "file"
    /\ file \in Files
    /\ bids = EmptyDict /\ asks = EmptyDict /\ trades = <<>> /\ calls = <<>>
    /\ fpos = 0 /\ data = <<>> /\ datalen = 0 /\ offset = 0 /\ pc = "next" /\ yielded = None
    /\ count = 0
    /\ depths = EmptyDict /\ out = NoOutput /\ last = NoCall /\ sent = NoneSent

FileNext == FastReaderNext \/ ProcessMessage

\* the loop of process_messages runs on while it can
FileSpec == FileInit /\ [][FileNext]_vars /\ WF_vars(FastReaderNext) /\ WF_vars(ProcessMessage)

(***************************************************************************)
(* prog = "iter": a FastReader whose __next__ is called again and again,   *)
(* also after it has raised StopIteration.  calls records that it has.     *)
(***************************************************************************)
IterInit ==
    /\ prog = "iter"
    /\ file \in Files
    /\ bids = EmptyDict /\ asks = EmptyDict /\ trades = <<>> /\ calls = <<>>
    /\ fpos = 0 /\ data = <<>> /\ datalen = 0 /\ offset = 0 /\ pc = "next" /\ yielded = None
    /\ count = 0
    /\ depths = EmptyDict /\ out = NoOutput /\ last = NoCall /\ sent = NoneSent

\* the caller takes what __next__ returned or raised and calls it again
NextAgain ==
    /\ prog = "iter"
    /\ pc \in {"got", "stop"}
    /\ calls' = IF pc = "stop" THEN <<"StopIteration">> ELSE calls
    /\ last' = [op |-> "again", after |-> pc]
    /\ pc' = "next"
    /\ UNCHANGED <<prog, file, fpos, data, datalen, offset, yielded, count,
                   bids, asks, trades, depths, out, sent>>

IterNext == FastReaderNext \/ NextAgain
IterSpec == IterInit /\ [][IterNext]_vars

Init == BookInit \/ TradesInit \/ LiveInit \/ FileInit \/ IterInit

Next ==
    \/ BookUpdate \/ TradesUpdate \/ LiveOnMessage
    \/ FastReaderNext \/ ProcessMessage \/ NextAgain

\* any of the four
Spec == Init /\ [][Next]_vars

\* the historical book, called directly or fed from a file
HistInit == BookInit \/ FileInit
HistNext == BookUpdate \/ FastReaderNext \/ ProcessMessage
HistSpec == HistInit /\ [][HistNext]_vars

\* the trade ledger, called directly or fed from a file
TradeInit == TradesInit \/ FileInit
TradeNext == TradesUpdate \/ FastReaderNext \/ ProcessMessage
TradeSpec == TradeInit /\ [][TradeNext]_vars

\* the live feed
LiveSpec == LiveInit /\ [][LiveOnMessage]_vars

(***************************************************************************)
(* The properties.                                                         *)
(***************************************************************************)
\* the last step applied a depth message to the historical book
DepthCall == last.op = "depth" \/ (last.op = "process" /\ last.msg[1] = 0)
IsSnap(m) == Bit(m[6], 2)
SideOf(b, a, m) == IF Bit(m[6], 0) THEN b ELSE a
OtherSideOf(b, a, m) == IF Bit(m[6], 0) THEN a ELSE b

\* the last step handled a MarketDepth payload that has all its keys
DepthPayload == last.op = "message" /\ WellFormed(last.msg)
\* the book of symbol s in the registry reg, empty when reg has none
BookOf(reg, s) == IF s \in DOMAIN reg THEN reg[s] ELSE NewSnapshot

\* C1: every price present in a bid or ask map, of the historical book or of a
\* live per-symbol book, has a stored volume strictly greater than 0.
C1_StoredVolumesPositive ==
    /\ \A k \in DOMAIN bids : FloatLess(Zero, bids[k])
    /\ \A k \in DOMAIN asks : FloatLess(Zero, asks[k])
    /\ \A s \in DOMAIN depths :
         /\ \A k \in DOMAIN depths[s].bids : depths[s].bids[k] > 0
         /\ \A k \in DOMAIN depths[s].asks : depths[s].asks[k] > 0

\* a live payload brought a negative volume for a bid the book held and a positive
\* one for another price, and the book holds bids afterwards
C1_Witness ==
    /\ DepthPayload
    /\ LET md == last.msg.MarketDepth
       IN  /\ \E i \in 1..Len(md.Bids) :
                /\ md.Bids[i].Volume < 0
                /\ md.Bids[i].Price \in DOMAIN BookOf(last.depths, md.Symbol).bids
           /\ \E i \in 1..Len(md.Bids) : md.Bids[i].Volume > 0
           /\ DOMAIN depths[md.Symbol].bids # {}

\* C2: after a historical depth message with the snapshot bit, the selected side
\* holds exactly the message's own price and volume if its volume > 0 and nothing
\* otherwise, and the other side is empty, whatever the book held before.
C2_SnapshotReplacesBook ==
    (DepthCall /\ IsSnap(last.msg)) =>
        /\ OtherSideOf(bids, asks, last.msg) = EmptyDict
        /\ SideOf(bids, asks, last.msg) =
             IF Positive(last.msg[5]) THEN Div8(last.msg[4]) :> Div8(last.msg[5])
             ELSE EmptyDict

\* a snapshot with volume > 0 arrived at a book that held bids and asks, none of
\* them at the snapshot's price
C2_Witness ==
    /\ DepthCall /\ IsSnap(last.msg) /\ Positive(last.msg[5])
    /\ last.bids # EmptyDict /\ last.asks # EmptyDict
    /\ Div8(last.msg[4]) \notin (DOMAIN last.bids) \cup (DOMAIN last.asks)

\* the last level of a list for price p
LastLevel(levels, p) ==
    levels[CHOOSE i \in 1..Len(levels) :
             levels[i].Price = p /\ \A j \in (i + 1)..Len(levels) : levels[j].Price # p]

\* the map a list of levels stands for: the prices whose last entry has Volume > 0
PayloadSide(levels) ==
    LET kept == {p \in {levels[i].Price : i \in 1..Len(levels)} :
                   LastLevel(levels, p).Volume > 0}
    IN  [p \in kept |-> LastLevel(levels, p).Volume]

\* C3: after on_message handles a MarketDepth payload with IsUpdate false for a
\* symbol, that symbol's book holds exactly the payload's levels on each side.
C3_LiveSnapshotIsPayload ==
    (DepthPayload /\ ~last.msg.MarketDepth.IsUpdate) =>
        LET md == last.msg.MarketDepth
        IN  /\ ~last.raised
            /\ md.Symbol \in DOMAIN depths
            /\ depths[md.Symbol].bids = PayloadSide(md.Bids)
            /\ depths[md.Symbol].asks = PayloadSide(md.Asks)

\* a full payload with a bid and an ask arrived for a symbol whose book held a bid
\* and an ask at other prices
C3_Witness ==
    /\ DepthPayload /\ ~last.msg.MarketDepth.IsUpdate
    /\ LET md  == last.msg.MarketDepth
           old == BookOf(last.depths, md.Symbol)
       IN  /\ PayloadSide(md.Bids) # EmptyDict /\ PayloadSide(md.Asks) # EmptyDict
           /\ (DOMAIN old.bids) \ DOMAIN PayloadSide(md.Bids) # {}
           /\ (DOMAIN old.asks) \ DOMAIN PayloadSide(md.Asks) # {}

\* what one side of the record of what was sent says the code's map must be
MatchesSent(id, side) ==
    LET want == sent.book[id][side]
        have == IF id = "history" THEN (IF side = "bids" THEN bids ELSE asks)
                ELSE depths[id][side]
        Canon(x) == IF id = "history" THEN Div8(x) ELSE x
    IN  /\ Cardinality(DOMAIN have) = Cardinality(DOMAIN want)
        /\ \A p \in DOMAIN want :
             Canon(p) \in DOMAIN have /\ have[Canon(p)] = Canon(want[p])

\* C4: after non-snapshot depth updates with volume > 0 applied to an empty book,
\* each side's map holds exactly one level for every distinct price sent to that
\* side, with the last volume written for it.
C4_LastWriteWins ==
    sent.ok => \A id \in DOMAIN sent.book : MatchesSent(id, "bids") /\ MatchesSent(id, "asks")

\* a payload without the level at index i of one side
WithoutLevel(m, side, i) ==
    LET l == m.MarketDepth[side]
    IN  [MarketDepth |-> [m.MarketDepth EXCEPT
            ![side] = SubSeq(l, 1, i - 1) \o SubSeq(l, i + 1, Len(l))]]

\* the level at index i of a side of the payload has volume 0 and its price is
\* not in that side's map of book d when the level is applied
ZeroForAbsent(d, m, side, i) ==
    LET l == m.MarketDepth[side]
    IN  /\ l[i].Volume = 0
        /\ l[i].Price \notin DOMAIN UpdateItems(d[side], SubSeq(l, 1, i - 1)).items

\* C5: a non-snapshot depth update with volume 0 for a price that is not in the
\* selected side's map changes neither map and raises nothing: for the historical
\* book the two maps are as before, for a live payload the book is the one the
\* payload without that level gives.
C5_ZeroVolumeAbsentPriceNoOp ==
    /\ (/\ DepthCall /\ ~IsSnap(last.msg) /\ IsZero(last.msg[5])
        /\ Div8(last.msg[4]) \notin DOMAIN SideOf(last.bids, last.asks, last.msg))
       => (bids = last.bids /\ asks = last.asks)
    /\ (DepthPayload /\ last.msg.MarketDepth.IsUpdate) =>
         LET md  == last.msg.MarketDepth
             old == BookOf(last.depths, md.Symbol)
         IN  \A side \in {"Bids", "Asks"} : \A i \in 1..Len(md[side]) :
               ZeroForAbsent([Bids |-> old.bids, Asks |-> old.asks], last.msg, side, i)
               => /\ ~last.raised
                  /\ depths[md.Symbol] = LiveUpdate(old, WithoutLevel(last.msg, side, i)).d

\* a zero-volume bid for a price the historical book did not hold arrived at a book
\* that held other levels
C5_Witness ==
    /\ DepthCall /\ ~IsSnap(last.msg) /\ IsZero(last.msg[5])
    /\ Div8(last.msg[4]) \notin DOMAIN SideOf(last.bids, last.asks, last.msg)
    /\ last.bids # EmptyDict /\ last.asks # EmptyDict

\* C6: after a non-snapshot historical update with volume <= 0 at a price, that
\* price is absent from the selected side, whose other levels stay: a level
\* inserted earlier is removed, and a lone bid removed leaves the bid map empty.
C6_NonPositiveVolumeRemoves ==
    (DepthCall /\ ~IsSnap(last.msg) /\ ~Positive(last.msg[5])) =>
        /\ Div8(last.msg[4]) \notin DOMAIN SideOf(bids, asks, last.msg)
        /\ DOMAIN SideOf(bids, asks, last.msg) =
             (DOMAIN SideOf(last.bids, last.asks, last.msg)) \ {Div8(last.msg[4])}

\* a level that was in the bid map beside another one has been removed
C6_Witness ==
    /\ DepthCall /\ ~IsSnap(last.msg) /\ ~Positive(last.msg[5]) /\ Bit(last.msg[6], 0)
    /\ Div8(last.msg[4]) \in DOMAIN last.bids
    /\ Cardinality(DOMAIN last.bids) = 2
    /\ Cardinality(DOMAIN bids) = 1

\* the printed value rep is the maximum of the keys S, or None when S is empty
ReportsMax(rep, S, type) ==
    IF S = {} THEN rep = None
    ELSE rep # None /\ rep[1] \in S /\ \A k \in S : ~PyLess(type, rep[1], k)

\* the printed value rep is the minimum of the keys S, or None when S is empty
ReportsMin(rep, S, type) ==
    IF S = {} THEN rep = None
    ELSE rep # None /\ rep[1] \in S /\ \A k \in S : ~PyLess(type, k, rep[1])

\* what history.printstate and the line of live.update print
PerSideReports ==
    /\ out.printed \in {"depth", "both"} =>
         /\ ReportsMax(out.depth.best_bid, DOMAIN bids, "float")
         /\ ReportsMin(out.depth.best_ask, DOMAIN asks, "float")
    /\ out.printed = "live" =>
         LET d == depths[last.msg.MarketDepth.Symbol]
         IN  /\ ReportsMax(out.update.best_bid, DOMAIN d.bids, "int")
             /\ ReportsMin(out.update.best_ask, DOMAIN d.asks, "int")

\* C7: every report of the best bid is the maximum key of the bid map and every
\* report of the best ask the minimum key of the ask map, each None exactly when
\* its own map is empty, whatever the other side holds.
C7_BestIndependentOfOtherSide ==
    /\ PerSideReports
    /\ out.printed = "live" =>
         LET d == depths[last.msg.MarketDepth.Symbol]
         IN  /\ ReportsMax(out.print_state.best_bid, DOMAIN d.bids, "int")
             /\ ReportsMin(out.print_state.best_ask, DOMAIN d.asks, "int")

\* the entry TradeProcessor.update records for a message
Recorded(m) == <<m[3], Div8(m[4]), Div8(m[5])>>

\* C8: the trades list is the entries of the update calls in call order: its
\* length is the number of calls, its last entry the last call's, and the list
\* before a call is a prefix of the list after it.
C8_TradesAreCallsInOrder ==
    prog \in {"trades", "file"} =>
        /\ Len(trades) = Len(calls)
        /\ \A i \in 1..Len(calls) : trades[i] = Recorded(calls[i])
        /\ last.op \in {"trade", "process"} =>
             /\ Len(last.trades) <= Len(trades)
             /\ SubSeq(trades, 1, Len(last.trades)) = last.trades
        /\ out.printed \in {"trades", "both"} =>
             /\ out.trades.trades_count = Len(calls)
             /\ out.trades.last_trade =
                  IF calls = <<>> THEN None ELSE Some(Recorded(calls[Len(calls)]))

\* three trades were recorded, the second with an earlier timestamp than the first
\* and the third equal to the first
C8_Witness ==
    /\ prog = "trades" /\ Len(trades) = 3
    /\ trades[1][1] = I64(2) /\ trades[2][1] = I64(1)
    /\ trades[3] = trades[1]

\* C9: a frame whose type is neither 0 nor 1 moves the offset on by its declared
\* length and is returned to the consumer as a message of its own.
C9_UnknownFrameYielded ==
    (last.op = "next" /\ last.header # None /\ last.header[1] \notin {0, 1}) =>
        /\ offset = last.offset + last.header[2]
        /\ pc = "got"
        /\ yielded # None
        /\ yielded[1] = last.header[1]

\* C10: reading a file ends: the reader signals end-of-stream, or fails, after
\* finitely many passes through the loop of __next__.
C10_ReaderTerminates == <>(pc \in {"stop", "error"})

\* the messages a block of whole frames encodes, in the order of its frames
Encoded ==
    (BidInsert \o Trade1) :>
        << <<0, 29, I64(1), P100, V25, 1>>, <<1, 37, I64(2), P100, V25, I64(7), 0>> >>
    @@ (AskInsert \o Unknown2 \o BidRemove) :>
        << <<0, 29, I64(2), PBigA, VTick, 0>>, <<0, 29, I64(3), P100, I64(0), 1>> >>
    @@ (Unknown7 \o Trade2) :> << <<1, 37, I64(1), PBigA, VTick, I64(8), 0>> >>
    @@ Unknown2 :> <<>>

\* a chunk whose length prefix ends the stream
IsTerminator(c) == c.lenbytes < 4 \/ c.clen = 0

\* every chunk of the file decompresses to whole frames with positive lengths; the
\* last one may be a terminator instead
Tiled ==
    \A i \in 1..Len(file.chunks) :
        LET c == file.chunks[i]
        IN  \/ i = Len(file.chunks) /\ IsTerminator(c)
            \/ /\ ~IsTerminator(c) /\ ~c.short /\ ~c.corrupt
               /\ c.block \in DOMAIN Encoded
               /\ Len(c.block) <= file.ulen

RECURSIVE Expected(_)
\* the messages of a tiled file, in file order
Expected(chunks) ==
    IF chunks = <<>> \/ IsTerminator(Head(chunks)) THEN <<>>
    ELSE Encoded[Head(chunks).block] \o Expected(Tail(chunks))

\* C11: on a stream whose blocks are tiled by frames with positive lengths, the
\* messages that reach process_messages are the type-0 and type-1 frames of the
\* file, in file order across blocks, each once and with the encoded field values; no
\* error is raised; the offset moves on by each frame's declared length; and a block
\* is pulled exactly when the offset has reached or passed the window's length.
C11_TiledStreamDecodes ==
    (prog = "file" /\ Tiled) =>
        LET E == Expected(file.chunks)
        IN  /\ pc # "error"
            /\ pc = "got" => (count < Len(E) /\ yielded = E[count + 1])
            /\ pc = "stop" => count = Len(E)
            /\ (last.op = "next" /\ last.header # None) =>
                 offset = last.offset + last.header[2]
            /\ (last.op = "next" /\ pc # "stop") =>
                 IF last.before.offset >= last.before.datalen
                 THEN fpos = last.before.fpos + 1 /\ last.offset = 0
                 ELSE fpos = last.before.fpos /\ last.offset = last.before.offset

\* a file of two tiled blocks, with an unknown frame between two depth frames in the
\* first, has been read to its end and gave four messages
C11_Witness ==
    /\ prog = "file" /\ Tiled /\ pc = "stop" /\ count = 4
    /\ Len(file.chunks) = 2
    /\ file.chunks[1].block = AskInsert \o Unknown2 \o BidRemove
    /\ file.chunks[2].block = BidInsert \o Trade1

\* C13: when the window is exhausted and the next length prefix is shorter than 4
\* bytes or is 0, that pass ends in StopIteration, not in an error and not in a
\* message; and StopIteration is only ever raised with the window exhausted.
C13_EndOfStreamAtWindowEnd ==
    /\ (/\ last.op = "next"
        /\ last.before.offset >= last.before.datalen
        /\ \/ last.before.fpos >= Len(file.chunks)
           \/ IsTerminator(file.chunks[last.before.fpos + 1]))
       => pc = "stop"
    /\ pc = "stop" =>
         (last.op = "next" /\ last.before.offset >= last.before.datalen)

\* after a block gave a message, a length prefix of 0 ended the stream
C13_Witness ==
    /\ prog = "file" /\ pc = "stop" /\ count >= 1
    /\ last.before.fpos < Len(file.chunks)
    /\ file.chunks[last.before.fpos + 1].lenbytes = 4
    /\ file.chunks[last.before.fpos + 1].clen = 0

\* C14: when the file holds fewer bytes than a non-zero length prefix announces,
\* the pass that reads them ends in an error: nothing decoded from them is returned
\* and process_messages stops.
C14_ShortChunkIsFatal ==
    (/\ last.op = "next"
     /\ last.before.offset >= last.before.datalen
     /\ last.before.fpos < Len(file.chunks)
     /\ ~IsTerminator(file.chunks[last.before.fpos + 1])
     /\ file.chunks[last.before.fpos + 1].short)
    => pc = "error"

\* C19: once __next__ has raised StopIteration, no later call of it returns a
\* message or raises anything else.
C19_EndOfStreamAbsorbing ==
    (prog = "iter" /\ calls # <<>>) => pc \in {"next", "stop"}

\* the message the last on_message call was given parsed as JSON
Parsed == last.op = "message" /\ ~JsonLoadsFails(last.msg)

\* C12: text that is not parseable JSON raises nothing out of on_message and leaves
\* the registry of books as it was.
C12_MalformedJsonIsolated ==
    (last.op = "message" /\ last.msg = NotJson) =>
        (~last.raised /\ depths = last.depths)

\* C15: a MarketDepth message with an expected key missing leaves every book, the
\* one of the symbol it names included, as it was (a symbol without a book counting
\* as an empty book).
C15_MissingKeySkipsMessage ==
    (Parsed /\ "MarketDepth" \in DOMAIN last.msg /\ ~WellFormed(last.msg)) =>
        \A s \in (DOMAIN depths) \cup (DOMAIN last.depths) :
            BookOf(depths, s) = BookOf(last.depths, s)

\* the prices a list of levels mentions
Mentioned(levels) == {levels[i].Price : i \in 1..Len(levels)}

\* C16: a book exists for exactly the symbols that MarketDepth messages have named;
\* a message changes no book but the one of the symbol it names and removes none;
\* and the book it updates is the one the symbol had: under an IsUpdate payload the
\* levels the payload does not mention stay as they were.
C16_PerSymbolIsolation ==
    /\ prog = "live" => DOMAIN depths = {calls[i] : i \in 1..Len(calls)} \ {"-"}
    /\ last.op = "message" =>
         /\ DOMAIN last.depths \subseteq DOMAIN depths
         /\ (DOMAIN depths) \ (DOMAIN last.depths) \subseteq {Named(last.msg)}
         /\ \A s \in DOMAIN last.depths :
              s # Named(last.msg) => depths[s] = last.depths[s]
    /\ (DepthPayload /\ last.msg.MarketDepth.IsUpdate) =>
         LET md  == last.msg.MarketDepth
             old == BookOf(last.depths, md.Symbol)
             new == depths[md.Symbol]
         IN  /\ \A p \in (DOMAIN old.bids) \ Mentioned(md.Bids) :
                  p \in DOMAIN new.bids /\ new.bids[p] = old.bids[p]
             /\ \A p \in (DOMAIN old.asks) \ Mentioned(md.Asks) :
                  p \in DOMAIN new.asks /\ new.asks[p] = old.asks[p]

\* a payload with levels arrived for a symbol that had no book, when the other
\* symbol had a book with a bid and an ask
C16_Witness ==
    /\ DepthPayload
    /\ LET md == last.msg.MarketDepth
       IN  /\ md.Symbol \notin DOMAIN last.depths
           /\ DOMAIN depths[md.Symbol].bids # {}
           /\ \E s \in DOMAIN last.depths :
                DOMAIN depths[s].bids # {} /\ DOMAIN depths[s].asks # {}

\* C20: a JSON object without the MarketDepth key raises nothing, opens no book and
\* changes no book.
C20_OtherKeysLeaveBooks ==
    (Parsed /\ "MarketDepth" \notin DOMAIN last.msg) =>
        (~last.raised /\ depths = last.depths)

\* a PublicTrade message arrived when a book with a level existed
C20_Witness ==
    /\ Parsed /\ "PublicTrade" \in DOMAIN last.msg
    /\ \E s \in DOMAIN depths : DOMAIN depths[s].bids # {}

\* the DepthUpdate message an entry of a payload normalizes to
Normalized(entry, isBid, snap) ==
    <<0, DepthSize, I64(0), Wire(entry.Price), Wire(entry.Volume),
      (IF isBid THEN 1 ELSE 0) + (IF snap THEN 4 ELSE 0)>>

\* the messages a payload normalizes to: its Bids, then its Asks, in list order, the
\* first of them a snapshot when the payload is not an update
NormalizedAll(md) ==
    [k \in 1..(Len(md.Bids) + Len(md.Asks)) |->
        Normalized(IF k <= Len(md.Bids) THEN md.Bids[k] ELSE md.Asks[k - Len(md.Bids)],
                   k <= Len(md.Bids),
                   ~md.IsUpdate /\ k = 1)]

RECURSIVE ApplyAll(_, _, _)
\* history.DepthSnapshot.update, message after message
ApplyAll(b, a, msgs) ==
    IF msgs = <<>> THEN [bids |-> b, asks |-> a]
    ELSE LET r == HistUpdate(b, a, Head(msgs))
         IN  ApplyAll(r.bids, r.asks, Tail(msgs))

\* a live map in the terms of the historical book
AsHist(items) ==
    LET keys == {Div8(Wire(p)) : p \in DOMAIN items}
    IN  [k \in keys |-> Div8(Wire(items[CHOOSE p \in DOMAIN items : Div8(Wire(p)) = k]))]

\* the book live.update left is the one the normalized messages give
AgreesWithNormalized ==
    LET md  == last.msg.MarketDepth
        old == BookOf(last.depths, md.Symbol)
        r   == ApplyAll(AsHist(old.bids), AsHist(old.asks), NormalizedAll(md))
    IN  /\ AsHist(depths[md.Symbol].bids) = r.bids
        /\ AsHist(depths[md.Symbol].asks) = r.asks

\* C18 as claimed: for every MarketDepth payload and every prior book, live.update
\* gives the maps that history's per-message rule gives on the payload's entries,
\* normalized in list order with the snapshot flag on the first entry of a payload
\* that is not an update.
C18_LiveAgreesWithNormalized == DepthPayload => AgreesWithNormalized

\* C18 as amended: the same, for the payloads that are updates or have at least one
\* entry.
C18_LiveAgreesUnlessEmptySnapshot ==
    (/\ DepthPayload
     /\ \/ last.msg.MarketDepth.IsUpdate
        \/ last.msg.MarketDepth.Bids # <<>>
        \/ last.msg.MarketDepth.Asks # <<>>)
    => AgreesWithNormalized

\* a payload that is not an update, with a bid and an ask, arrived at a book that
\* held levels on both sides
C18_Witness ==
    /\ DepthPayload /\ ~last.msg.MarketDepth.IsUpdate
    /\ last.msg.MarketDepth.Bids # <<>> /\ last.msg.MarketDepth.Asks # <<>>
    /\ LET old == BookOf(last.depths, last.msg.MarketDepth.Symbol)
       IN  old.bids # EmptyDict /\ old.asks # EmptyDict
    /\ depths[last.msg.MarketDepth.Symbol].bids # EmptyDict

\* a depth message with every flag bit but bit 0 and bit 2 cleared
OnlySideAndSnapshot(m) ==
    [m EXCEPT ![6] = (IF Bit(m[6], 0) THEN 1 ELSE 0) + (IF Bit(m[6], 2) THEN 4 ELSE 0)]

\* C17: a historical depth message without the snapshot bit leaves the map of the
\* side that flag bit 0 does not select, and every other price of the side it
\* selects, as they were; the other flag bits change nothing in the result; and in
\* process_messages a type-0 message leaves the trades and a type-1 message the book.
C17_UpdateTouchesOwnLevelOnly ==
    /\ (DepthCall /\ ~IsSnap(last.msg)) =>
         LET own == Div8(last.msg[4])
             old == SideOf(last.bids, last.asks, last.msg)
             new == SideOf(bids, asks, last.msg)
         IN  /\ OtherSideOf(bids, asks, last.msg) =
                  OtherSideOf(last.bids, last.asks, last.msg)
             /\ (DOMAIN new) \ {own} = (DOMAIN old) \ {own}
             /\ \A k \in (DOMAIN old) \ {own} : new[k] = old[k]
    /\ DepthCall =>
         LET r == HistUpdate(last.bids, last.asks, OnlySideAndSnapshot(last.msg))
         IN  bids = r.bids /\ asks = r.asks
    /\ (last.op = "process" /\ last.msg[1] = 0) => trades = last.trades
    /\ (last.op = "process" /\ last.msg[1] = 1) =>
         (bids = last.bids /\ asks = last.asks)

\* a message with every flag bit set but bit 0 and bit 2 put a new ask beside
\* another one, in a book that held a bid
C17_Witness ==
    /\ DepthCall /\ last.msg[6] = 250 /\ Positive(last.msg[5])
    /\ last.bids # EmptyDict
    /\ last.asks # EmptyDict
    /\ Div8(last.msg[4]) \notin DOMAIN last.asks
    /\ Cardinality(DOMAIN asks) = 2

====
